---- MODULE Spec2Model ----
(***************************************************************************)
(* Model of groupchat-api (main.py): three process-wide dictionaries       *)
(* (users_db, orgs_db, groups_db), their JSON backing files and the HTTP   *)
(* handlers that read and mutate them.  Every handler is an `async def`    *)
(* without an await, so one handler call is one atomic step.               *)
(*                                                                         *)
(* Dictionaries are functions whose DOMAIN is the set of keys.  A message  *)
(* dictionary is a record; the key "color" is present only after           *)
(* get_messages has written it.  The fields that no handler ever reads     *)
(* (email, org_ids, description, org_id, content, timestamp) are opaque    *)
(* payload: a user and an organization keep one such field, `name`.        *)
(*                                                                         *)
(* A backing file holds a JSON document (an object is the sequence of its  *)
(* key/value pairs) or what is left of one after a write that failed.      *)
(* `faults` is the number of I/O failures the environment may still cause: *)
(* none under Spec, MaxFaults under SpecIO, which also restarts the        *)
(* process.                                                                *)
(***************************************************************************)
EXTENDS Integers, Sequences, FiniteSets, TLC

VARIABLES users_db, orgs_db, groups_db,
          users_file, orgs_file, groups_file,
          uuid_count, response, faults

vars == <<users_db, orgs_db, groups_db, users_file, orgs_file, groups_file,
          uuid_count, response, faults>>

(***************************************************************************)
(* Bounds and input universes                                              *)
(***************************************************************************)
\* largest number of stored items: users + organizations + groups +
\* members + messages + reactions
MaxSize == 4
\* largest number of items (members + messages + reactions) in one request
\* body of POST /groups/
MaxBody == 3
\* largest number of uuid4() draws
MaxUuid == 2
\* largest number of failing save_data calls (SpecIO)
MaxFaults == 1
\* largest number of stored items on the failing file system (SpecIO)
MaxSizeIO == 2

UserIds == {"u1", "u2"}
OrgIds == {"o1"}
GroupIds == {"g1"}
Names == {"a", "b"}
\* message ids a client can put into the body of POST /groups/
ClientMsgIds == {"c0"}
Reactions == {"like", "dislike", "meh"}

(***************************************************************************)
(* Python list helpers                                                     *)
(***************************************************************************)
\* x in lst
In(x, lst) == \E i \in 1..Len(lst) : lst[i] = x

\* index of the first occurrence of x in lst (x in lst)
FirstIndex(x, lst) == CHOOSE i \in 1..Len(lst) :
                         /\ lst[i] = x
                         /\ \A j \in 1..(i - 1) : lst[j] # x

\* lst.remove(x): deletes the first occurrence only
ListRemove(lst, x) ==
    LET k == FirstIndex(x, lst)
    IN  [i \in 1..(Len(lst) - 1) |-> IF i < k THEN lst[i] ELSE lst[i + 1]]

\* number of occurrences of x in lst
Count(x, lst) == Cardinality({i \in 1..Len(lst) : lst[i] = x})

SeqsUpTo(S, n) == UNION {[1..k -> S] : k \in 0..n}

RECURSIVE SumSeq(_)
SumSeq(s) == IF s = <<>> THEN 0 ELSE Head(s) + SumSeq(Tail(s))

RECURSIVE SumSet(_, _)
SumSet(f, S) == IF S = {} THEN 0
                ELSE LET x == CHOOSE y \in S : TRUE
                     IN  f[x] + SumSet(f, S \ {x})

(***************************************************************************)
(* Data models                                                             *)
(***************************************************************************)
\* class User
User == [id : UserIds, name : Names]

\* class Organization
Organization == [id : OrgIds, name : Names]

MessageSize(m) == 1 + Len(m.likes) + Len(m.dislikes)

\* class Message, as validated from a request body: likes and dislikes are
\* arbitrary lists of strings, extra keys (such as color) are dropped
Message == {m \in [id : ClientMsgIds, user_id : UserIds,
                   likes : SeqsUpTo(UserIds, MaxBody - 1),
                   dislikes : SeqsUpTo(UserIds, MaxBody - 1)] :
               MessageSize(m) <= MaxBody}

MessagesSize(msgs) == SumSeq([i \in 1..Len(msgs) |-> MessageSize(msgs[i])])

\* List[Message] of at most n items in all
RECURSIVE MessageLists(_)
MessageLists(n) ==
    {<<>>} \cup UNION {{<<m>> \o rest : rest \in MessageLists(n - MessageSize(m))} :
                          m \in {x \in Message : MessageSize(x) <= n}}

GroupSize(g) == Len(g.members) + MessagesSize(g.messages)

\* class Group, as validated from a request body: members is an arbitrary
\* list of strings, messages an arbitrary list of Message
Group == UNION {[id : GroupIds, members : [1..k -> UserIds],
                 messages : MessageLists(MaxBody - k)] : k \in 0..MaxBody}

DbSize(db) == SumSet([k \in DOMAIN db |-> 1 + GroupSize(db[k])], DOMAIN db)

\* the bound on the stored items
Fits(u, o, g) ==
    Cardinality(DOMAIN u) + Cardinality(DOMAIN o) + DbSize(g) <= MaxSize

\* uuid4(): the n-th draw; distinct draws give distinct tokens
Uuid(n) == "m" \o ToString(n)

(***************************************************************************)
(* Persistence store                                                       *)
(***************************************************************************)
EmptyDict == [k \in {} |-> {}]

\* json.dump of a dictionary: the sequence of its <<key, value>> pairs.
\* Python writes the keys in insertion order, which no handler and no
\* comparison of dictionaries depends on; the pairs are written here in the
\* order `order`
dump_object(d, order) ==
    LET keys == SelectSeq(order, LAMBDA k : k \in DOMAIN d)
    IN  [i \in 1..Len(keys) |-> <<keys[i], d[keys[i]]>>]

\* json.load of an object: the dictionary of its pairs, a repeated key
\* keeping its last value
load_object(pairs) ==
    [k \in {pairs[i][1] : i \in 1..Len(pairs)} |->
        pairs[CHOOSE i \in 1..Len(pairs) :
                /\ pairs[i][1] = k
                /\ \A j \in (i + 1)..Len(pairs) : pairs[j][1] # k][2]]

\* the keys of the dictionaries, in the order json.dump writes them
UserOrder == <<"u1", "u2">>
OrgOrder == <<"o1">>
GroupOrder == <<"g1">>
EntityFields == <<"id", "name">>
MessageFields == <<"id", "user_id", "likes", "dislikes", "color">>

\* a user or an organization: an object of strings
dump_entity(e) == dump_object(e, EntityFields)
load_entity(pairs) == load_object(pairs)

\* dump_message writing the fields of class Message only
dump_message_ModelFields(m) ==
    dump_object(m, <<"id", "user_id", "likes", "dislikes">>)

\* a message: an object of strings and arrays of strings, with every key
\* the dictionary has
dump_message(m) == dump_object(m, MessageFields)
load_message(pairs) == load_object(pairs)

dump_group(g) ==
    <<<<"id", g.id>>,
      <<"members", g.members>>,
      <<"messages", [i \in 1..Len(g.messages) |-> dump_message(g.messages[i])]>>>>

load_group(pairs) ==
    LET g == load_object(pairs)
    IN  [g EXCEPT !.messages = [i \in 1..Len(@) |-> load_message(@[i])]]

\* json.dump / json.load of users_db and orgs_db
dump_entities(db, order) ==
    LET pairs == dump_object(db, order)
    IN  [i \in 1..Len(pairs) |-> <<pairs[i][1], dump_entity(pairs[i][2])>>]

load_entities(doc) ==
    LET db == load_object(doc)
    IN  [k \in DOMAIN db |-> load_entity(db[k])]

\* json.dump / json.load of groups_db
dump_groups(db) ==
    LET pairs == dump_object(db, GroupOrder)
    IN  [i \in 1..Len(pairs) |-> <<pairs[i][1], dump_group(pairs[i][2])>>]

load_groups(doc) ==
    LET db == load_object(doc)
    IN  [k \in DOMAIN db |-> load_group(db[k])]

\* a file with a complete document, and a file opened with "w" (truncated)
\* whose write did not complete: json.load raises on it
Written(doc) == [valid |-> TRUE, doc |-> doc]
Truncated == [valid |-> FALSE, doc |-> <<>>]

\* save_data whose failing write has put the whole document into the file
\* before the exception
save_data_FailsAfterWrite(file, doc) ==
    \/ /\ file' = Written(doc)
       /\ UNCHANGED faults
    \/ /\ faults > 0
       /\ faults' = faults - 1
       /\ file' = file
    \/ /\ faults > 0
       /\ faults' = faults - 1
       /\ file' = Written(doc)

\* save_data(filename, data): overwrites the file with the whole collection;
\* an exception of open() leaves the file as it was, an exception of
\* json.dump leaves it truncated, and both are swallowed
save_data(file, doc) ==
    \/ /\ file' = Written(doc)
       /\ UNCHANGED faults
    \/ /\ faults > 0
       /\ faults' = faults - 1
       /\ file' = file
    \/ /\ faults > 0
       /\ faults' = faults - 1
       /\ file' = Truncated

\* load_data(filename, {}) on an existing file: `loaded`, what json.load
\* makes of a complete document, or the default when json.load raises
load_data(file, loaded) == IF file.valid THEN loaded ELSE EmptyDict

Put(db, key, value) == [k \in DOMAIN db \cup {key} |->
                          IF k = key THEN value ELSE db[k]]

Init ==
    /\ users_db = EmptyDict
    /\ orgs_db = EmptyDict
    /\ groups_db = EmptyDict
    /\ users_file = Written(dump_entities(EmptyDict, UserOrder))
    /\ orgs_file = Written(dump_entities(EmptyDict, OrgOrder))
    /\ groups_file = Written(dump_groups(EmptyDict))
    /\ uuid_count = 0
    /\ faults = 0
    /\ response = [op |-> "startup", status |-> 0, detail |-> "", body |-> <<>>]

Ok(op, body) == [op |-> op, status |-> 200, detail |-> "", body |-> body]
HTTPException(op, code, detail) ==
    [op |-> op, status |-> code, detail |-> detail, body |-> <<>>]

(***************************************************************************)
(* Handlers                                                                *)
(***************************************************************************)
\* POST /users/
create_user(user) ==
    IF user.id \in DOMAIN users_db
    THEN /\ response' = HTTPException("create_user", 400, "User already exists")
         /\ UNCHANGED <<users_db, orgs_db, groups_db, users_file, orgs_file,
                        groups_file, uuid_count, faults>>
    ELSE /\ users_db' = Put(users_db, user.id, user)
         /\ Fits(users_db', orgs_db, groups_db)
         /\ save_data(users_file, dump_entities(users_db', UserOrder))
         /\ response' = Ok("create_user", <<user>>)
         /\ UNCHANGED <<orgs_db, groups_db, orgs_file, groups_file, uuid_count>>

\* GET /users/{user_id}
get_user(user_id) ==
    /\ response' = IF user_id \notin DOMAIN users_db
                   THEN HTTPException("get_user", 404, "User not found")
                   ELSE Ok("get_user", <<users_db[user_id]>>)
    /\ UNCHANGED <<users_db, orgs_db, groups_db, users_file, orgs_file,
                   groups_file, uuid_count, faults>>

\* POST /organizations/
create_organization(org) ==
    IF org.id \in DOMAIN orgs_db
    THEN /\ response' = HTTPException("create_organization", 400,
                                      "Organization already exists")
         /\ UNCHANGED <<users_db, orgs_db, groups_db, users_file, orgs_file,
                        groups_file, uuid_count, faults>>
    ELSE /\ orgs_db' = Put(orgs_db, org.id, org)
         /\ Fits(users_db, orgs_db', groups_db)
         /\ save_data(orgs_file, dump_entities(orgs_db', OrgOrder))
         /\ response' = Ok("create_organization", <<org>>)
         /\ UNCHANGED <<users_db, groups_db, users_file, groups_file, uuid_count>>

\* create_group without the test for an existing id
create_group_NoConflictCheck(group) ==
    /\ groups_db' = Put(groups_db, group.id, group)
    /\ Fits(users_db, orgs_db, groups_db')
    /\ save_data(groups_file, dump_groups(groups_db'))
    /\ response' = Ok("create_group", <<group>>)
    /\ UNCHANGED <<users_db, orgs_db, users_file, orgs_file, uuid_count>>

\* POST /groups/ : the validated body is stored as it is
create_group(group) ==
    IF group.id \in DOMAIN groups_db
    THEN /\ response' = HTTPException("create_group", 400, "Group already exists")
         /\ UNCHANGED <<users_db, orgs_db, groups_db, users_file, orgs_file,
                        groups_file, uuid_count, faults>>
    ELSE /\ groups_db' = Put(groups_db, group.id, group)
         /\ Fits(users_db, orgs_db, groups_db')
         /\ save_data(groups_file, dump_groups(groups_db'))
         /\ response' = Ok("create_group", <<group>>)
         /\ UNCHANGED <<users_db, orgs_db, users_file, orgs_file, uuid_count>>

\* add_member_to_group with the two existence checks in the other order
add_member_to_group_UserFirst(group_id, user_id) ==
    IF user_id \notin DOMAIN users_db
    THEN /\ response' = HTTPException("add_member_to_group", 404, "User not found")
         /\ UNCHANGED <<users_db, orgs_db, groups_db, users_file, orgs_file,
                        groups_file, uuid_count, faults>>
    ELSE IF group_id \notin DOMAIN groups_db
    THEN /\ response' = HTTPException("add_member_to_group", 404, "Group not found")
         /\ UNCHANGED <<users_db, orgs_db, groups_db, users_file, orgs_file,
                        groups_file, uuid_count, faults>>
    ELSE /\ IF ~In(user_id, groups_db[group_id].members)
            THEN /\ groups_db' = [groups_db EXCEPT ![group_id].members =
                                      Append(@, user_id)]
                 /\ Fits(users_db, orgs_db, groups_db')
                 /\ save_data(groups_file, dump_groups(groups_db'))
            ELSE UNCHANGED <<groups_db, groups_file, faults>>
         /\ response' = Ok("add_member_to_group",
                           <<[message |-> "Member added successfully"]>>)
         /\ UNCHANGED <<users_db, orgs_db, users_file, orgs_file, uuid_count>>

\* POST /groups/{group_id}/members/{user_id}
add_member_to_group(group_id, user_id) ==
    IF group_id \notin DOMAIN groups_db
    THEN /\ response' = HTTPException("add_member_to_group", 404, "Group not found")
         /\ UNCHANGED <<users_db, orgs_db, groups_db, users_file, orgs_file,
                        groups_file, uuid_count, faults>>
    ELSE IF user_id \notin DOMAIN users_db
    THEN /\ response' = HTTPException("add_member_to_group", 404, "User not found")
         /\ UNCHANGED <<users_db, orgs_db, groups_db, users_file, orgs_file,
                        groups_file, uuid_count, faults>>
    ELSE /\ IF ~In(user_id, groups_db[group_id].members)
            THEN /\ groups_db' = [groups_db EXCEPT ![group_id].members =
                                      Append(@, user_id)]
                 /\ Fits(users_db, orgs_db, groups_db')
                 /\ save_data(groups_file, dump_groups(groups_db'))
            ELSE UNCHANGED <<groups_db, groups_file, faults>>
         /\ response' = Ok("add_member_to_group",
                           <<[message |-> "Member added successfully"]>>)
         /\ UNCHANGED <<users_db, orgs_db, users_file, orgs_file, uuid_count>>

\* create_message with messages.insert(0, message) in place of append
create_message_InsertFirst(group_id, user_id) ==
    IF group_id \notin DOMAIN groups_db
    THEN /\ response' = HTTPException("create_message", 404, "Group not found")
         /\ UNCHANGED <<users_db, orgs_db, groups_db, users_file, orgs_file,
                        groups_file, uuid_count, faults>>
    ELSE IF user_id \notin DOMAIN users_db
    THEN /\ response' = HTTPException("create_message", 404, "User not found")
         /\ UNCHANGED <<users_db, orgs_db, groups_db, users_file, orgs_file,
                        groups_file, uuid_count, faults>>
    ELSE /\ uuid_count < MaxUuid
         /\ uuid_count' = uuid_count + 1
         /\ LET message == [id |-> Uuid(uuid_count'), user_id |-> user_id,
                            likes |-> <<>>, dislikes |-> <<>>]
            IN  /\ groups_db' = [groups_db EXCEPT ![group_id].messages =
                                     <<message>> \o @]
                /\ response' = Ok("create_message", <<message>>)
         /\ Fits(users_db, orgs_db, groups_db')
         /\ save_data(groups_file, dump_groups(groups_db'))
         /\ UNCHANGED <<users_db, orgs_db, users_file, orgs_file>>

\* POST /groups/{group_id}/messages
create_message(group_id, user_id) ==
    IF group_id \notin DOMAIN groups_db
    THEN /\ response' = HTTPException("create_message", 404, "Group not found")
         /\ UNCHANGED <<users_db, orgs_db, groups_db, users_file, orgs_file,
                        groups_file, uuid_count, faults>>
    ELSE IF user_id \notin DOMAIN users_db
    THEN /\ response' = HTTPException("create_message", 404, "User not found")
         /\ UNCHANGED <<users_db, orgs_db, groups_db, users_file, orgs_file,
                        groups_file, uuid_count, faults>>
    ELSE /\ uuid_count < MaxUuid
         /\ uuid_count' = uuid_count + 1
         /\ LET message == [id |-> Uuid(uuid_count'), user_id |-> user_id,
                            likes |-> <<>>, dislikes |-> <<>>]
            IN  /\ groups_db' = [groups_db EXCEPT ![group_id].messages =
                                     Append(@, message)]
                /\ response' = Ok("create_message", <<message>>)
         /\ Fits(users_db, orgs_db, groups_db')
         /\ save_data(groups_file, dump_groups(groups_db'))
         /\ UNCHANGED <<users_db, orgs_db, users_file, orgs_file>>

\* the scan with `msg` (the loop variable, left at the last message) used
\* after the loop in place of `message`
FindMessage_LoopVariable(messages, message_id) ==
    IF \E i \in 1..Len(messages) : messages[i].id = message_id
    THEN CHOOSE i \in 1..Len(messages) :
            /\ messages[i].id = message_id
            /\ \A j \in 1..(i - 1) : messages[j].id # message_id
    ELSE Len(messages)

\* the scan of react_to_message: index of the first message whose id is
\* message_id, 0 when the loop ends with message = None
FindMessage(messages, message_id) ==
    IF \E i \in 1..Len(messages) : messages[i].id = message_id
    THEN CHOOSE i \in 1..Len(messages) :
            /\ messages[i].id = message_id
            /\ \A j \in 1..(i - 1) : messages[j].id # message_id
    ELSE 0

\* "Remove existing reaction if any"
RemoveReaction(message, user_id) ==
    LET m1 == IF In(user_id, message.likes)
              THEN [message EXCEPT !.likes = ListRemove(@, user_id)]
              ELSE message
    IN  IF In(user_id, m1.dislikes)
        THEN [m1 EXCEPT !.dislikes = ListRemove(@, user_id)]
        ELSE m1

\* "Add new reaction"
AddReaction(message, user_id, reaction) ==
    IF reaction = "like"
    THEN [message EXCEPT !.likes = Append(@, user_id)]
    ELSE IF reaction = "dislike"
    THEN [message EXCEPT !.dislikes = Append(@, user_id)]
    ELSE message

\* POST /groups/{group_id}/messages/{message_id}/react
react_to_message(group_id, message_id, user_id, reaction) ==
    IF group_id \notin DOMAIN groups_db
    THEN /\ response' = HTTPException("react_to_message", 404, "Group not found")
         /\ UNCHANGED <<users_db, orgs_db, groups_db, users_file, orgs_file,
                        groups_file, uuid_count, faults>>
    ELSE LET k == FindMessage(groups_db[group_id].messages, message_id)
         IN  IF k = 0
             THEN /\ response' = HTTPException("react_to_message", 404,
                                               "Message not found")
                  /\ UNCHANGED <<users_db, orgs_db, groups_db, users_file,
                                 orgs_file, groups_file, uuid_count, faults>>
             ELSE LET message == AddReaction(
                                   RemoveReaction(groups_db[group_id].messages[k],
                                                  user_id),
                                   user_id, reaction)
                  IN  /\ groups_db' = [groups_db EXCEPT
                                         ![group_id].messages[k] = message]
                      /\ Fits(users_db, orgs_db, groups_db')
                      /\ save_data(groups_file, dump_groups(groups_db'))
                      /\ response' = Ok("react_to_message", <<message>>)
                      /\ UNCHANGED <<users_db, orgs_db, users_file, orgs_file,
                                     uuid_count>>

\* like_ratio = len(likes) / total_reactions, kept as numerator and denominator
LikeRatio(message) ==
    <<Len(message.likes), Len(message.likes) + Len(message.dislikes)>>

\* the color with like_ratio computed by floor division (//)
Color_FloorDivision(message) ==
    LET total_reactions == Len(message.likes) + Len(message.dislikes)
    IN  IF total_reactions > 0
        THEN IF Len(message.likes) \div total_reactions = 1 THEN "green"
             ELSE IF Len(message.likes) \div total_reactions = 0 THEN "red"
             ELSE "yellow"
        ELSE "gray"

\* "Calculate reaction color"
Color(message) ==
    LET total_reactions == Len(message.likes) + Len(message.dislikes)
        like_ratio == LikeRatio(message)
    IN  IF total_reactions > 0
        THEN IF like_ratio[1] = like_ratio[2] THEN "green"
             ELSE IF like_ratio[1] = 0 THEN "red"
             ELSE "yellow"
        ELSE "gray"

\* message["color"] = c
SetColor(message, c) ==
    [k \in DOMAIN message \cup {"color"} |->
        IF k = "color" THEN c ELSE message[k]]

\* GET /groups/{group_id}/messages : the loop writes the color into the
\* dictionaries of groups_db and the handler returns that very list
get_messages(group_id) ==
    IF group_id \notin DOMAIN groups_db
    THEN /\ response' = HTTPException("get_messages", 404, "Group not found")
         /\ UNCHANGED <<users_db, orgs_db, groups_db, users_file, orgs_file,
                        groups_file, uuid_count, faults>>
    ELSE LET messages == [i \in 1..Len(groups_db[group_id].messages) |->
                            SetColor(groups_db[group_id].messages[i],
                                     Color(groups_db[group_id].messages[i]))]
         IN  /\ groups_db' = [groups_db EXCEPT ![group_id].messages = messages]
             /\ response' = Ok("get_messages", messages)
             /\ UNCHANGED <<users_db, orgs_db, users_file, orgs_file,
                            groups_file, uuid_count, faults>>

\* bodies sent to POST /groups/ for an id that is already stored: the handler
\* reads nothing but group.id before it raises, so the small bodies stand
\* for all of them
ConflictBodies == {group \in Group : GroupSize(group) <= 1}

MsgIds == ClientMsgIds \cup {Uuid(n) : n \in 1..MaxUuid}

Next ==
    \/ \E user \in User : create_user(user)
    \/ \E user_id \in UserIds : get_user(user_id)
    \/ \E org \in Organization : create_organization(org)
    \/ /\ GroupIds \ DOMAIN groups_db # {}
       /\ \E group \in Group :
             group.id \notin DOMAIN groups_db /\ create_group(group)
    \/ \E group \in ConflictBodies :
          group.id \in DOMAIN groups_db /\ create_group(group)
    \/ \E group_id \in GroupIds, user_id \in UserIds :
          add_member_to_group(group_id, user_id)
    \/ \E group_id \in GroupIds, user_id \in UserIds :
          create_message(group_id, user_id)
    \/ \E group_id \in GroupIds, message_id \in MsgIds, user_id \in UserIds,
          reaction \in Reactions :
          react_to_message(group_id, message_id, user_id, reaction)
    \/ \E group_id \in GroupIds : get_messages(group_id)

Spec == Init /\ [][Next]_vars

\* the process is started again: the module level loads the three
\* collections from the files; uuid4() goes on drawing unused values
startup ==
    /\ users_db' = load_data(users_file, load_entities(users_file.doc))
    /\ orgs_db' = load_data(orgs_file, load_entities(orgs_file.doc))
    /\ groups_db' = load_data(groups_file, load_groups(groups_file.doc))
    /\ response' = [op |-> "startup", status |-> 0, detail |-> "",
                    body |-> <<>>]
    /\ UNCHANGED <<users_file, orgs_file, groups_file, uuid_count, faults>>

\* the process on a file system whose writes can fail
InitIO ==
    /\ users_db = EmptyDict
    /\ orgs_db = EmptyDict
    /\ groups_db = EmptyDict
    /\ users_file = Written(dump_entities(EmptyDict, UserOrder))
    /\ orgs_file = Written(dump_entities(EmptyDict, OrgOrder))
    /\ groups_file = Written(dump_groups(EmptyDict))
    /\ uuid_count = 0
    /\ faults = MaxFaults
    /\ response = [op |-> "startup", status |-> 0, detail |-> "",
                   body |-> <<>>]

\* the bound on the stored items under SpecIO
FitsIO ==
    Cardinality(DOMAIN users_db) + Cardinality(DOMAIN orgs_db)
        + DbSize(groups_db) <= MaxSizeIO

\* the bodies of POST /groups/ that fit the bound of SpecIO
BodiesIO == {group \in Group : 1 + GroupSize(group) <= MaxSizeIO}

NextIO ==
    \/ \E user \in User : create_user(user) /\ FitsIO'
    \/ \E user_id \in UserIds : get_user(user_id)
    \/ \E org \in Organization : create_organization(org) /\ FitsIO'
    \/ /\ GroupIds \ DOMAIN groups_db # {}
       /\ \E group \in BodiesIO :
             /\ group.id \notin DOMAIN groups_db
             /\ create_group(group)
             /\ FitsIO'
    \/ \E group \in ConflictBodies :
          group.id \in DOMAIN groups_db /\ create_group(group)
    \/ \E group_id \in GroupIds, user_id \in UserIds :
          add_member_to_group(group_id, user_id) /\ FitsIO'
    \/ \E group_id \in GroupIds, user_id \in UserIds :
          create_message(group_id, user_id) /\ FitsIO'
    \/ \E group_id \in GroupIds, message_id \in MsgIds, user_id \in UserIds,
          reaction \in Reactions :
          react_to_message(group_id, message_id, user_id, reaction) /\ FitsIO'
    \/ \E group_id \in GroupIds : get_messages(group_id)
    \/ startup

SpecIO == InitIO /\ [][NextIO]_vars

(***************************************************************************)
(* Helpers of the properties                                               *)
(***************************************************************************)
IsPrefix(s, t) == /\ Len(s) <= Len(t)
                  /\ \A i \in 1..Len(s) : s[i] = t[i]

Ids(messages) == [i \in 1..Len(messages) |-> messages[i].id]

NoDuplicates(lst) == \A i, j \in 1..Len(lst) : lst[i] = lst[j] => i = j

HasColor(message) == "color" \in DOMAIN message

AllUnchanged == UNCHANGED <<users_db, orgs_db, groups_db, users_file,
                            orgs_file, groups_file, uuid_count, faults>>

\* what a start of the process would load from the three files
FileUsers == load_data(users_file, load_entities(users_file.doc))
FileOrgs == load_data(orgs_file, load_entities(orgs_file.doc))
FileGroups == load_data(groups_file, load_groups(groups_file.doc))

\* the smallest request body of POST /groups/ with a given id
EmptyGroup(id) == [id |-> id, members |-> <<>>, messages |-> <<>>]

(***************************************************************************)
(* C1: in every reachable state no user id is in both the likes and the    *)
(* dislikes of one message.                                                *)
(***************************************************************************)
C1_LikesDislikesDisjoint ==
    \A g \in DOMAIN groups_db :
      \A i \in 1..Len(groups_db[g].messages) :
        \A u \in UserIds :
          ~(/\ In(u, groups_db[g].messages[i].likes)
            /\ In(u, groups_db[g].messages[i].dislikes))

(***************************************************************************)
(* C2: a create_user, create_organization or create_group call whose id is *)
(* already a key answers 400 and changes neither a collection nor a file:  *)
(* a step of one of the three either does so or is not a call with a       *)
(* stored id (the group a create_group step returns had a new id).         *)
(***************************************************************************)
C2_DuplicateIdConflict ==
    [][/\ response'.op = "create_user" =>
            \/ response'.status = 400 /\ AllUnchanged
            \/ \A user \in User :
                  ~(user.id \in DOMAIN users_db /\ create_user(user))
       /\ response'.op = "create_organization" =>
            \/ response'.status = 400 /\ AllUnchanged
            \/ \A org \in Organization :
                  ~(org.id \in DOMAIN orgs_db /\ create_organization(org))
       /\ response'.op = "create_group" =>
            \/ response'.status = 400 /\ AllUnchanged
            \/ /\ response'.status = 200
               /\ response'.body[1].id \notin DOMAIN groups_db
               /\ \A id \in DOMAIN groups_db : ~create_group(EmptyGroup(id))
      ]_vars

\* a conflict answered by create_group on a stored group that is not empty
C2_Witness ==
    /\ response.op = "create_group"
    /\ response.status = 400
    /\ \E g \in DOMAIN groups_db : GroupSize(groups_db[g]) > 0
    /\ users_db # EmptyDict

(***************************************************************************)
(* C3: no message stored in the groups backing file has a color key.       *)
(***************************************************************************)
C3_NoColorInFile ==
    \A g \in DOMAIN FileGroups :
      \A i \in 1..Len(FileGroups[g].messages) :
        ~HasColor(FileGroups[g].messages[i])

(***************************************************************************)
(* C4: every member of a group and the user_id of every message is a key   *)
(* of users_db.                                                            *)
(***************************************************************************)
C4_ReferencedUsersExist ==
    \A g \in DOMAIN groups_db :
      /\ \A i \in 1..Len(groups_db[g].members) :
            groups_db[g].members[i] \in DOMAIN users_db
      /\ \A i \in 1..Len(groups_db[g].messages) :
            groups_db[g].messages[i].user_id \in DOMAIN users_db

(***************************************************************************)
(* C5: add_member_to_group(g, u) on a stored group g and a stored user u   *)
(* answers 200 and leaves exactly one occurrence of u in the members of g; *)
(* when u is already a member, as it is after a successful call, the call  *)
(* leaves groups_db as it was.                                             *)
(***************************************************************************)
C5_AddMemberIdempotent ==
    [][response'.op = "add_member_to_group" =>
         \A g \in GroupIds, u \in UserIds :
           (/\ g \in DOMAIN groups_db
            /\ u \in DOMAIN users_db
            /\ add_member_to_group(g, u))
              => /\ response'.status = 200
                 /\ In(u, groups_db[g].members) => groups_db' = groups_db
                 /\ Count(u, groups_db'[g].members) = 1
      ]_vars

(***************************************************************************)
(* C6: no members list holds a user id twice, and a step never changes the *)
(* members already present nor their order (new ones go to the end).       *)
(***************************************************************************)
C6_MembersSetLike ==
    [][/\ \A g \in DOMAIN groups_db' : NoDuplicates(groups_db'[g].members)
       /\ \A g \in DOMAIN groups_db :
            /\ g \in DOMAIN groups_db'
            /\ IsPrefix(groups_db[g].members, groups_db'[g].members)
      ]_vars

(***************************************************************************)
(* C7: react_to_message on an absent group, or with a message id that no   *)
(* message of the group has, answers 404 and changes neither a collection  *)
(* nor a file.                                                             *)
(***************************************************************************)
C7_ReactNotFound ==
    [][response'.op = "react_to_message" =>
         \/ response'.status = 404 /\ AllUnchanged
         \/ \A g \in GroupIds, m \in MsgIds, u \in UserIds, r \in Reactions :
              ~(/\ \/ g \notin DOMAIN groups_db
                   \/ \A i \in 1..Len(groups_db[g].messages) :
                         groups_db[g].messages[i].id # m
                /\ react_to_message(g, m, u, r))
      ]_vars

\* react_to_message has scanned a group with messages and found no match
C7_Witness ==
    /\ response.op = "react_to_message"
    /\ response.status = 404
    /\ response.detail = "Message not found"
    /\ \E g \in DOMAIN groups_db : Len(groups_db[g].messages) > 0

(***************************************************************************)
(* C8: in every step the message ids of every stored group before the step *)
(* are a prefix of its message ids after the step, and a successful        *)
(* create_message adds exactly one message, the returned one, at the end.  *)
(***************************************************************************)
C8_MessagesAppendOnly ==
    [][/\ \A g \in DOMAIN groups_db :
            /\ g \in DOMAIN groups_db'
            /\ IsPrefix(Ids(groups_db[g].messages), Ids(groups_db'[g].messages))
       /\ response'.op = "create_message" =>
            \A g \in GroupIds, u \in UserIds :
              (create_message(g, u) /\ response'.status = 200)
                 => Ids(groups_db'[g].messages) =
                       Append(Ids(groups_db[g].messages), response'.body[1].id)
      ]_vars

\* create_message has appended to a group that already had a message
C8_Witness ==
    /\ response.op = "create_message"
    /\ response.status = 200
    /\ \E g \in DOMAIN groups_db :
          /\ Len(groups_db[g].messages) >= 2
          /\ groups_db[g].messages[Len(groups_db[g].messages)].id
                = response.body[1].id

(***************************************************************************)
(* C9: a user id occurs at most once in the likes and at most once in the  *)
(* dislikes of every message.                                              *)
(***************************************************************************)
C9_OneReactionEntryPerUser ==
    \A g \in DOMAIN groups_db :
      \A i \in 1..Len(groups_db[g].messages) :
        \A u \in UserIds :
          /\ Count(u, groups_db[g].messages[i].likes) <= 1
          /\ Count(u, groups_db[g].messages[i].dislikes) <= 1

(***************************************************************************)
(* C10: every message returned by get_messages has the color of the        *)
(* reference derivation over its likes and dislikes, which are those of    *)
(* the stored message: gray / green / red / yellow.                        *)
(***************************************************************************)
ReferenceColor(likes, dislikes) ==
    CASE likes = <<>> /\ dislikes = <<>> -> "gray"
      [] likes # <<>> /\ dislikes = <<>> -> "green"
      [] likes = <<>> /\ dislikes # <<>> -> "red"
      [] likes # <<>> /\ dislikes # <<>> -> "yellow"

C10_ColorDerivation ==
    [][response'.op = "get_messages" =>
         \A g \in GroupIds :
           (get_messages(g) /\ response'.status = 200)
              => /\ Len(response'.body) = Len(groups_db[g].messages)
                 /\ \A i \in 1..Len(response'.body) :
                       /\ response'.body[i].likes = groups_db[g].messages[i].likes
                       /\ response'.body[i].dislikes =
                             groups_db[g].messages[i].dislikes
                       /\ HasColor(response'.body[i])
                       /\ response'.body[i].color =
                             ReferenceColor(response'.body[i].likes,
                                            response'.body[i].dislikes)
      ]_vars

\* get_messages has returned a message with mixed reactions
C10_Witness ==
    /\ response.op = "get_messages"
    /\ response.status = 200
    /\ \E i \in 1..Len(response.body) :
          /\ response.body[i].likes # <<>>
          /\ response.body[i].dislikes # <<>>
          /\ response.body[i].color = "yellow"

ReactionRecorded(group_id, message_id, user_id, reaction) ==
    LET before == groups_db[group_id].messages
        after == groups_db'[group_id].messages
        i == FindMessage(before, message_id)
    IN  /\ Len(after) = Len(before)
        /\ In(user_id, after[i].likes) <=> reaction = "like"
        /\ In(user_id, after[i].dislikes) <=> reaction = "dislike"
        /\ \A v \in UserIds \ {user_id} :
             /\ Count(v, after[i].likes) = Count(v, before[i].likes)
             /\ Count(v, after[i].dislikes) = Count(v, before[i].dislikes)
        /\ \A j \in 1..Len(before) : j # i => after[j] = before[j]

C12_ReactionRecorded ==
    [][(response'.op = "react_to_message" /\ response'.status = 200) =>
         \A group_id \in GroupIds, message_id \in MsgIds, user_id \in UserIds,
            reaction \in Reactions :
            react_to_message(group_id, message_id, user_id, reaction) =>
               ReactionRecorded(group_id, message_id, user_id, reaction)]_vars

(***************************************************************************)
(* C13: add_member_to_group and create_message answer 404 when the group   *)
(* or the user is not stored, "Group not found" when the group is absent   *)
(* (it is tested first), and then change no collection and no file; with   *)
(* both stored they succeed, whether or not the user is a member.          *)
(***************************************************************************)
NotFoundOrSuccess(group_id, user_id) ==
    IF group_id \notin DOMAIN groups_db
    THEN /\ response'.status = 404
         /\ response'.detail = "Group not found"
         /\ AllUnchanged
    ELSE IF user_id \notin DOMAIN users_db
    THEN /\ response'.status = 404
         /\ response'.detail = "User not found"
         /\ AllUnchanged
    ELSE response'.status = 200

C13_NotFoundChecks ==
    [][/\ response'.op = "add_member_to_group" =>
            \A group_id \in GroupIds, user_id \in UserIds :
               add_member_to_group(group_id, user_id) =>
                  NotFoundOrSuccess(group_id, user_id)
       /\ response'.op = "create_message" =>
            \A group_id \in GroupIds, user_id \in UserIds :
               create_message(group_id, user_id) =>
                  NotFoundOrSuccess(group_id, user_id)]_vars

\* a call for a missing group and a missing user was answered "Group not
\* found"
C13_Witness ==
    /\ response.op \in {"add_member_to_group", "create_message"}
    /\ response.status = 404
    /\ response.detail = "Group not found"
    /\ users_db = EmptyDict
    /\ groups_db = EmptyDict

(***************************************************************************)
(* C14: create_message gives the new message an id that no stored message  *)
(* has, empty likes and dislikes and the user_id of the call; in every     *)
(* reachable state the ids of the messages of one group are pairwise       *)
(* distinct.                                                               *)
(***************************************************************************)
AllMessageIds ==
    UNION {{groups_db[g].messages[i].id : i \in 1..Len(groups_db[g].messages)} :
             g \in DOMAIN groups_db}

C14_FreshMessage ==
    [][(response'.op = "create_message" /\ response'.status = 200) =>
         /\ response'.body[1].id \notin AllMessageIds
         /\ response'.body[1].likes = <<>>
         /\ response'.body[1].dislikes = <<>>
         /\ \A group_id \in GroupIds, user_id \in UserIds :
               create_message(group_id, user_id) =>
                  /\ response'.body[1].user_id = user_id
                  /\ groups_db'[group_id].messages[
                        Len(groups_db'[group_id].messages)] = response'.body[1]]_vars

\* C14, its invariant: in every reachable state the ids of the messages of
\* one group are pairwise distinct
C14_MessageIdsDistinct ==
    \A g \in DOMAIN groups_db : NoDuplicates(Ids(groups_db[g].messages))

(***************************************************************************)
(* C17: with no failing save, in every state between two requests each     *)
(* backing file holds the in-memory collection it belongs to.              *)
(***************************************************************************)
C17_FileEqualsMemory ==
    /\ FileUsers = users_db
    /\ FileOrgs = orgs_db
    /\ FileGroups = groups_db

(***************************************************************************)
(* C18: the message a successful react_to_message call returns has no      *)
(* color key, or the color get_messages derives from the likes and         *)
(* dislikes it is returned with.                                           *)
(***************************************************************************)
C18_ReactColorAgrees ==
    [][(response'.op = "react_to_message" /\ response'.status = 200) =>
         \/ ~HasColor(response'.body[1])
         \/ response'.body[1].color = Color(response'.body[1])]_vars

(***************************************************************************)
(* C15: a failing save is swallowed.  A step in which save_data failed is  *)
(* a step of one of the six mutating handlers; it answers 200 and the      *)
(* in-memory collection has the mutation.                                  *)
(***************************************************************************)
SaveFailed == faults' < faults

MutatingOps == {"create_user", "create_organization", "create_group",
                "add_member_to_group", "create_message", "react_to_message"}

\* the collection in memory has what the handler wrote
MutationInMemory ==
    /\ response'.op = "create_user" =>
         /\ response'.body[1].id \notin DOMAIN users_db
         /\ users_db' = Put(users_db, response'.body[1].id, response'.body[1])
    /\ response'.op = "create_organization" =>
         /\ response'.body[1].id \notin DOMAIN orgs_db
         /\ orgs_db' = Put(orgs_db, response'.body[1].id, response'.body[1])
    /\ response'.op = "create_group" =>
         /\ response'.body[1].id \notin DOMAIN groups_db
         /\ groups_db' = Put(groups_db, response'.body[1].id, response'.body[1])
    /\ response'.op = "add_member_to_group" =>
         \E g \in DOMAIN groups_db, u \in UserIds :
            /\ ~In(u, groups_db[g].members)
            /\ groups_db' = [groups_db EXCEPT ![g].members = Append(@, u)]
    /\ response'.op = "create_message" =>
         \E g \in DOMAIN groups_db :
            groups_db' = [groups_db EXCEPT ![g].messages =
                              Append(@, response'.body[1])]
    /\ response'.op = "react_to_message" =>
         \E g \in DOMAIN groups_db :
            \E i \in 1..Len(groups_db[g].messages) :
               /\ groups_db'[g].messages[i] = response'.body[1]
               /\ groups_db[g].messages[i].id = response'.body[1].id

SwallowedInMemory ==
    /\ response'.op \in MutatingOps
    /\ response'.status = 200
    /\ MutationInMemory

KeptOrTruncated(file, loaded) ==
    /\ file' = file \/ file' = Truncated
    /\ loaded' \in {loaded, EmptyDict}

=============================================================================
